---- MODULE Spec2Model ----
(***************************************************************************)
(* A model of clean.py: the scanner find_files (an os.walk over a          *)
(* directory tree with a regular-expression test of every filename), the   *)
(* remover remove_files (a delete loop that catches per-file errors) and   *)
(* the __main__ block that wires them together (validate, scan, report,    *)
(* prompt, remove).                                                        *)
(*                                                                         *)
(* A string is a sequence of one-character strings.  The filesystem is a   *)
(* sequence of nodes; node 1 is the path given with --dir, every other     *)
(* node names its parent.  Library calls are modelled by their documented  *)
(* behaviour: os.walk(top) with its defaults (topdown, onerror=None,       *)
(* followlinks=False), re.search, os.remove, Path.stat, input.  The        *)
(* console output of print and tqdm is not part of the state, and print is *)
(* taken not to raise.                                                     *)
(***************************************************************************)
EXTENDS Integers, Sequences, FiniteSets, TLC

VARIABLES
    fs,              \* the filesystem: a sequence of nodes
    fs0,             \* the filesystem as it was when the run began
    pc,              \* position of the program
    stack,           \* os.walk: the directories still to be listed, next first
    skipped,         \* os.walk: the directories whose listing failed
    acc,             \* find_files: its local conflict_list
    conflict_list,   \* __main__: conflict_list, the value find_files returned
    total_size,      \* __main__: total_size
    total_size_str,  \* __main__: total_size_str, as [unit, hundredths]
    prompted,        \* the confirmation prompt has been written
    user_input,      \* __main__: user_input
    files,           \* remove_files: its parameter
    idx,             \* remove_files: position of the for loop
    log,             \* remove_files: one entry per deletion attempt
    exit_code,       \* the exit status of the process
    filename,        \* pattern check: the filename under test
    matched          \* pattern check: the result of conflict_re.search

vars == <<fs, fs0, pc, stack, skipped, acc, conflict_list, total_size,
          total_size_str, prompted, user_input, files, idx, log, exit_code,
          filename, matched>>

----------------------------------------------------------------------------
(* Bounds *)

\* the number of entries below the root directory
MaxEntries == 3

\* the number of chunks a filename under test is built from
MaxChunks == 5

----------------------------------------------------------------------------
(* Strings *)

RECURSIVE Concat(_)
Concat(ss) == IF ss = <<>> THEN <<>> ELSE Head(ss) \o Concat(Tail(ss))

Range(s) == {s[i] : i \in 1..Len(s)}

NL == "\n"

Digits == {"0", "1", "2", "3", "4", "5", "6", "7", "8", "9"}

EditConflict ==
    <<"#", " ", "E", "d", "i", "t", " ", "c", "o", "n", "f", "l", "i", "c", "t", " ">>

----------------------------------------------------------------------------
(* The conflict pattern, line 26:                                          *)
(*     re.compile(r"# Edit conflict \d{4}-\d{2}-\d{2} .* #")               *)
(* A pattern is a sequence of elements: a literal character, \d, or .*     *)

Lit(c) == [t |-> "lit", c |-> c]
Digit == [t |-> "digit", c |-> ""]
DotStar == [t |-> "dotstar", c |-> ""]

Lits(s) == [i \in 1..Len(s) |-> Lit(s[i])]

conflict_re ==
    Lits(EditConflict)
    \o <<Digit, Digit, Digit, Digit, Lit("-"), Digit, Digit, Lit("-"), Digit, Digit>>
    \o <<Lit(" "), DotStar, Lit(" "), Lit("#")>>

\* what one pattern element accepts; "." accepts every character but a newline
DotAccepts(c) == c # NL

\* the pattern from element p on matches s from position i on
RECURSIVE MatchHere(_, _, _, _)
MatchHere(pat, p, s, i) ==
    IF p > Len(pat) THEN TRUE
    ELSE CASE pat[p].t = "lit" ->
                  /\ i <= Len(s)
                  /\ s[i] = pat[p].c
                  /\ MatchHere(pat, p + 1, s, i + 1)
           [] pat[p].t = "digit" ->
                  /\ i <= Len(s)
                  /\ s[i] \in Digits
                  /\ MatchHere(pat, p + 1, s, i + 1)
           [] pat[p].t = "dotstar" ->
                  \E k \in i..(Len(s) + 1) :
                      /\ \A m \in i..(k - 1) : DotAccepts(s[m])
                      /\ MatchHere(pat, p + 1, s, k)

\* re.match in place of re.search: the start of the string only
SearchStarts_Anchored(s) == {1}

\* the positions a search tries: every position of the string
SearchStarts(s) == 1..(Len(s) + 1)

\* pattern.search(s) is not None
Search(pat, s) == \E i \in SearchStarts(s) : MatchHere(pat, 1, s, i)

\* line 42: conflict_re.search(file)
IsConflictName(file) == Search(conflict_re, file)

----------------------------------------------------------------------------
(* Filenames under test: concatenations of at most MaxChunks chunks        *)

Chunks ==
    { EditConflict,
      <<"9", "9", "9", "9", "-", "9", "9", "-", "9", "9">>,
      <<"2", "0", "2", "4", "-", "1", "-", "1", "5">>,
      <<" ">>,
      <<"v", "2">>,
      <<NL>>,
      <<" ", "#">> }

RECURSIVE ChunkSeqs(_)
ChunkSeqs(n) ==
    IF n = 0 THEN {<<>>}
    ELSE LET shorter == ChunkSeqs(n - 1)
         IN  shorter \cup {Append(cs, c) : cs \in {x \in shorter : Len(x) = n - 1}, c \in Chunks}

TestNames == {Concat(cs) : cs \in ChunkSeqs(MaxChunks)}

\* the two filenames of the spec's example directory
NameConflict ==
    <<"r", "e", "p", "o", "r", "t", " ">> \o EditConflict
    \o <<"2", "0", "2", "4", "-", "0", "1", "-", "1", "5">>
    \o <<" ", "v", "2", " ", "#", ".", "d", "o", "c", "x">>

NamePlain ==
    <<"r", "e", "p", "o", "r", "t", "_", "f", "i", "n", "a", "l", ".", "d", "o", "c", "x">>

Stems == {"conflict", "plain"}

StemChars(stem) ==
    CASE stem = "conflict" -> NameConflict
      [] stem = "plain" -> NamePlain
      [] OTHER -> <<".">>

----------------------------------------------------------------------------
(* The filesystem.  A node is [parent, kind, name, ok]: kind is "dir",     *)
(* "file" or "none" (no such path); ok says that the directory can be      *)
(* listed (os.scandir succeeds) or that the file can be deleted (os.remove *)
(* succeeds).  A path is identified with the node it names.                *)

Root == 1

IdChar == <<"1", "2", "3", "4", "5", "6", "7", "8", "9">>

RootNodes ==
    {[parent |-> 0, kind |-> k, name |-> "root", ok |-> b] :
        k \in {"dir", "file"}, b \in BOOLEAN}
    \cup {[parent |-> 0, kind |-> "none", name |-> "root", ok |-> FALSE]}

\* the filesystem with root node r and n entries below it; entry i is node
\* i + 1, hangs below an earlier node and has a stem of Stems
MakeFs(r, n, parent, kind, name, ok) ==
    <<r>> \o [i \in 1..n |->
                 [parent |-> parent[i], kind |-> kind[i], name |-> name[i], ok |-> ok[i]]]

\* the filesystems the program may be started on: the path given may be a
\* directory, a file or missing; only directories have entries
StartFs(f) ==
    \E r \in RootNodes, n \in 0..MaxEntries :
        /\ r.kind # "dir" => n = 0
        /\ \E parent \in [1..n -> 1..MaxEntries] :
               /\ \A i \in 1..n : parent[i] <= i
               /\ \E kind \in [1..n -> {"dir", "file"}] :
                      /\ \A i \in 1..n :
                             IF parent[i] = Root THEN TRUE
                             ELSE kind[parent[i] - 1] = "dir"
                      /\ \E name \in [1..n -> Stems], ok \in [1..n -> BOOLEAN] :
                             f = MakeFs(r, n, parent, kind, name, ok)

\* the filename of an entry: its stem and its number, so that no two entries
\* of a directory share a name
FileName(f, n) == StemChars(f[n].name) \o <<IdChar[n]>>

RECURSIVE Ascending(_)
Ascending(S) ==
    IF S = {} THEN <<>>
    ELSE LET m == CHOOSE x \in S : \A y \in S : x <= y
         IN  <<m>> \o Ascending(S \ {m})

\* os.scandir(top): the entries of the directory, in the order the system
\* hands them out (here: by node number)
Entries(f, top) ==
    Ascending({n \in 1..Len(f) : f[n].parent = top /\ f[n].kind # "none"})

\* os.scandir(top) raises OSError
ScandirFails(f, top) == f[top].kind # "dir" \/ ~f[top].ok

\* os.walk's split of the entries: dirs (entry.is_dir()) and nondirs
WalkDirs(f, top) == SelectSeq(Entries(f, top), LAMBDA n : f[n].kind = "dir")
WalkFiles(f, top) == SelectSeq(Entries(f, top), LAMBDA n : f[n].kind # "dir")

\* a loop over every entry of the directory, directories included
ConflictFilesIn_AllEntries(f, top) ==
    SelectSeq(Entries(f, top), LAMBDA n : IsConflictName(FileName(f, n)))

\* lines 40-47: the files of one yielded directory that are appended
ConflictFilesIn(f, top) ==
    SelectSeq(WalkFiles(f, top), LAMBDA n : IsConflictName(FileName(f, n)))

\* os.remove(file) succeeds
RemoveSucceeds(f, n) == f[n].kind = "file" /\ f[n].ok

----------------------------------------------------------------------------
(* Sizes, line 110-111 *)

KiB == 1024
MiB == KiB * KiB

\* the sizes Path.stat().st_size reports
Sizes == {1, 512000, 614400, 1048575}

RECURSIVE Sum(_)
Sum(s) == IF s = <<>> THEN 0 ELSE Head(s) + Sum(Tail(s))

\* f"{n / d:.2f}": n / d in hundredths, rounded half to even
Fixed2(n, d) ==
    LET q == (n * 100) \div d
        r == (n * 100) % d
    IN  IF 2 * r > d THEN q + 1
        ELSE IF 2 * r = d THEN q + (q % 2)
        ELSE q

\* megabytes from 1024 ** 2 on
UseMB_AtLeast(total) == total >= MiB

\* line 111: the condition of the conditional expression
UseMB(total) == total > MiB

\* line 111
FormatSize(total) ==
    IF UseMB(total)
    THEN [unit |-> "MB", hundredths |-> Fixed2(total, MiB)]
    ELSE [unit |-> "KB", hundredths |-> Fixed2(total, KiB)]

NoSize == [unit |-> "", hundredths |-> 0]

----------------------------------------------------------------------------
(* The answers typed at the prompt *)

Responses == {"y", "Y", "yes", "y ", "", "n"}

NoInput == "<none>"

\* a comparison that ignores case
Affirmative_AnyCase(answer) == answer \in {"y", "Y"}

\* line 115
Affirmative(answer) == answer = "y"

----------------------------------------------------------------------------
(* The program *)

scan_vars == <<stack, skipped, acc>>
main_vars == <<conflict_list, total_size, total_size_str, prompted, user_input>>
remove_vars == <<files, idx, log>>
re_vars == <<filename, matched>>

Init ==
    /\ StartFs(fs)
    /\ fs0 = fs
    /\ pc = "start"
    /\ stack = <<>>
    /\ skipped = {}
    /\ acc = <<>>
    /\ conflict_list = <<>>
    /\ total_size = 0
    /\ total_size_str = NoSize
    /\ prompted = FALSE
    /\ user_input = NoInput
    /\ files = <<>>
    /\ idx = 0
    /\ log = <<>>
    /\ exit_code = -1
    /\ filename = <<>>
    /\ matched = FALSE

\* a check of dir.exists() alone
DirIsBad_ExistsOnly(f) == f[Root].kind = "none"

\* line 96: not dir.exists() or not dir.is_dir()
DirIsBad(f) == f[Root].kind = "none" \/ f[Root].kind # "dir"

\* lines 96-98: the directory is missing or no directory: report, exit(1)
ValidateFail ==
    /\ pc = "start"
    /\ DirIsBad(fs)
    /\ pc' = "exited"
    /\ exit_code' = 1
    /\ UNCHANGED <<fs, fs0, scan_vars, main_vars, remove_vars, re_vars>>

\* lines 96, 101, 29, 32-33: find_files is called and os.walk(dir) starts
ValidateOk ==
    /\ pc = "start"
    /\ ~DirIsBad(fs)
    /\ pc' = "scan"
    /\ stack' = <<Root>>
    /\ acc' = <<>>
    /\ UNCHANGED <<fs, fs0, skipped, main_vars, remove_vars, exit_code, re_vars>>

\* lines 32-47: os.walk lists the next directory and yields it; the loop body
\* appends its conflict files; the walk goes on with its subdirectories
WalkYield ==
    /\ pc = "scan"
    /\ stack # <<>>
    /\ ~ScandirFails(fs, Head(stack))
    /\ acc' = acc \o ConflictFilesIn(fs, Head(stack))
    /\ stack' = WalkDirs(fs, Head(stack)) \o Tail(stack)
    /\ UNCHANGED <<fs, fs0, pc, skipped, main_vars, remove_vars, exit_code, re_vars>>

\* an os.walk that lets the error of os.scandir out
AfterScandirError_Raise ==
    [pc |-> "crashed", stack |-> stack, skipped |-> skipped \cup {Head(stack)}]

\* the state os.walk is left in when os.scandir raises: onerror is None, so
\* the error is dropped and the directory yields nothing
AfterScandirError ==
    [pc |-> "scan", stack |-> Tail(stack), skipped |-> skipped \cup {Head(stack)}]

\* lines 32-33: os.scandir fails on the next directory
WalkSkip ==
    /\ pc = "scan"
    /\ stack # <<>>
    /\ ScandirFails(fs, Head(stack))
    /\ pc' = AfterScandirError.pc
    /\ stack' = AfterScandirError.stack
    /\ skipped' = AfterScandirError.skipped
    /\ UNCHANGED <<fs, fs0, acc, main_vars, remove_vars, exit_code, re_vars>>

\* lines 50, 101: the walk is exhausted; find_files returns its list
FindReturn ==
    /\ pc = "scan"
    /\ stack = <<>>
    /\ conflict_list' = acc
    /\ pc' = "report"
    /\ UNCHANGED <<fs, fs0, scan_vars, total_size, total_size_str, prompted,
                   user_input, remove_vars, exit_code, re_vars>>

\* lines 103-104: no conflict file; the program ends
ReportNone ==
    /\ pc = "report"
    /\ Len(conflict_list) = 0
    /\ pc' = "exited"
    /\ exit_code' = 0
    /\ UNCHANGED <<fs, fs0, scan_vars, main_vars, remove_vars, re_vars>>

\* lines 103-110: the list is printed; f.stat() raises for one of the files
\* and nothing catches it
ReportStatFails ==
    /\ pc = "report"
    /\ Len(conflict_list) > 0
    /\ pc' = "crashed"
    /\ exit_code' = 1
    /\ UNCHANGED <<fs, fs0, scan_vars, main_vars, remove_vars, re_vars>>

\* lines 103-114: the list is printed, the sizes are summed and formatted,
\* and input() writes the prompt
ReportAndPrompt ==
    /\ pc = "report"
    /\ Len(conflict_list) > 0
    /\ \E sizes \in [1..Len(conflict_list) -> Sizes] :
           /\ total_size' = Sum(sizes)
           /\ total_size_str' = FormatSize(Sum(sizes))
    /\ prompted' = TRUE
    /\ pc' = "prompt"
    /\ UNCHANGED <<fs, fs0, scan_vars, conflict_list, user_input, remove_vars,
                   exit_code, re_vars>>

\* a list that has lost its first path
ListToRemove_Tail(found) == Tail(found)

\* the list __main__ hands to remove_files, line 117
ListToRemove(found) == found

\* lines 114-117: the answer is 'y'; remove_files is called
AnswerYes ==
    /\ pc = "prompt"
    /\ \E answer \in Responses :
           /\ Affirmative(answer)
           /\ user_input' = answer
    /\ files' = ListToRemove(conflict_list)
    /\ idx' = 1
    /\ pc' = "remove"
    /\ UNCHANGED <<fs, fs0, scan_vars, conflict_list, total_size, total_size_str,
                   prompted, log, exit_code, re_vars>>

\* lines 114-119: any other answer; removal is aborted
AnswerOther ==
    /\ pc = "prompt"
    /\ \E answer \in Responses :
           /\ ~Affirmative(answer)
           /\ user_input' = answer
    /\ pc' = "exited"
    /\ exit_code' = 0
    /\ UNCHANGED <<fs, fs0, scan_vars, conflict_list, total_size, total_size_str,
                   prompted, remove_vars, re_vars>>

\* line 114: standard input is at its end; input() raises EOFError
AnswerEOF ==
    /\ pc = "prompt"
    /\ pc' = "crashed"
    /\ exit_code' = 1
    /\ UNCHANGED <<fs, fs0, scan_vars, main_vars, remove_vars, re_vars>>

\* a loop that runs from the last path to the first
LoopOrder_Reversed(fl) == [i \in 1..Len(fl) |-> fl[Len(fl) + 1 - i]]

\* the iteration order of the for loop of line 61
LoopOrder(fl) == fl

\* a failed os.remove that is not caught
AfterRemoveError_Raise == [pc |-> "crashed", idx |-> idx]

\* where remove_files stands after a failed os.remove: the except clause
\* reports it and the loop goes on
AfterRemoveError == [pc |-> "remove", idx |-> idx + 1]

\* lines 61-64: os.remove succeeds
RemoveOk ==
    /\ pc = "remove"
    /\ idx <= Len(files)
    /\ LET file == LoopOrder(files)[idx]
       IN  /\ RemoveSucceeds(fs, file)
           /\ fs' = [fs EXCEPT ![file].kind = "none"]
           /\ log' = Append(log, [file |-> file, result |-> "removed"])
    /\ idx' = idx + 1
    /\ UNCHANGED <<fs0, pc, scan_vars, main_vars, files, exit_code, re_vars>>

\* lines 61-66: os.remove raises; the error is caught and reported
RemoveError ==
    /\ pc = "remove"
    /\ idx <= Len(files)
    /\ LET file == LoopOrder(files)[idx]
       IN  /\ ~RemoveSucceeds(fs, file)
           /\ log' = Append(log, [file |-> file, result |-> "error"])
    /\ pc' = AfterRemoveError.pc
    /\ idx' = AfterRemoveError.idx
    /\ UNCHANGED <<fs, fs0, scan_vars, main_vars, files, exit_code, re_vars>>

\* line 61: the loop is exhausted; remove_files returns and the program ends
RemoveReturn ==
    /\ pc = "remove"
    /\ idx > Len(files)
    /\ pc' = "exited"
    /\ exit_code' = 0
    /\ UNCHANGED <<fs, fs0, scan_vars, main_vars, remove_vars, re_vars>>

Next ==
    \/ ValidateFail
    \/ ValidateOk
    \/ WalkYield
    \/ WalkSkip
    \/ FindReturn
    \/ ReportNone
    \/ ReportStatFails
    \/ ReportAndPrompt
    \/ AnswerYes
    \/ AnswerOther
    \/ AnswerEOF
    \/ RemoveOk
    \/ RemoveError
    \/ RemoveReturn

Spec == Init /\ [][Next]_vars

----------------------------------------------------------------------------
(* The pattern alone: conflict_re.search applied to a filename *)

InitRe ==
    /\ fs = <<[parent |-> 0, kind |-> "none", name |-> "root", ok |-> FALSE]>>
    /\ fs0 = fs
    /\ pc = "name"
    /\ stack = <<>>
    /\ skipped = {}
    /\ acc = <<>>
    /\ conflict_list = <<>>
    /\ total_size = 0
    /\ total_size_str = NoSize
    /\ prompted = FALSE
    /\ user_input = NoInput
    /\ files = <<>>
    /\ idx = 0
    /\ log = <<>>
    /\ exit_code = -1
    /\ filename \in TestNames
    /\ matched = FALSE

\* line 42
SearchName ==
    /\ pc = "name"
    /\ matched' = IsConflictName(filename)
    /\ pc' = "searched"
    /\ UNCHANGED <<fs, fs0, scan_vars, main_vars, remove_vars, exit_code, filename>>

NextRe == SearchName

SpecRe == InitRe /\ [][NextRe]_vars

----------------------------------------------------------------------------
(* Notions the properties are stated in *)

\* find_files has returned its list to __main__
FindReturned == pc \notin {"start", "scan"} /\ stack = <<>> /\ fs0[Root].kind = "dir"

\* the process has ended
Ended == pc \in {"exited", "crashed"}

NoDuplicates(s) == \A i, j \in 1..Len(s) : s[i] = s[j] => i = j

\* the directories above node n, the root included
RECURSIVE Above(_, _)
Above(f, n) ==
    IF f[n].parent = 0 THEN {} ELSE {f[n].parent} \cup Above(f, f[n].parent)

\* the files below the root whose own filename carries the conflict pattern
ConflictFiles(f) ==
    {n \in 1..Len(f) : n # Root /\ f[n].kind = "file" /\ IsConflictName(FileName(f, n))}

\* the nodes every directory above which can be listed
Listed(f) == {n \in 1..Len(f) : \A d \in Above(f, n) : ~ScandirFails(f, d)}

----------------------------------------------------------------------------
(* Properties of the program *)

\* C1: remove_files is entered, and a file is deleted, only if the line read
\* at the prompt is exactly 'y'; after any other answer the program ends with
\* removal aborted and the filesystem as it was before the run.
C1_OnlyExactY ==
    /\ (pc = "remove" \/ files # <<>> \/ log # <<>> \/ fs # fs0) => user_input = "y"
    /\ user_input \notin {NoInput, "y"} =>
           /\ pc = "exited"
           /\ idx = 0
           /\ log = <<>>
           /\ fs = fs0

C1_Witness ==
    /\ user_input \in {"Y", "yes", "y ", ""}
    /\ pc = "exited"
    /\ Len(conflict_list) > 1

\* C2: once remove_files has been entered and the program has ended, every
\* path of the input list has been attempted exactly once and reported, as
\* removed if its deletion can succeed and as an error otherwise; the paths
\* that can be deleted are gone and the others are as they were.
C2_WholeBatch ==
    (Ended /\ user_input = "y") =>
        /\ Len(log) = Len(files)
        /\ \A n \in Range(files) :
               /\ Cardinality({i \in 1..Len(log) : log[i].file = n}) = 1
               /\ \A i \in 1..Len(log) :
                      log[i].file = n =>
                          log[i].result =
                              IF RemoveSucceeds(fs0, n) THEN "removed" ELSE "error"
               /\ fs[n].kind = IF RemoveSucceeds(fs0, n) THEN "none" ELSE fs0[n].kind

C2_Witness ==
    /\ Ended
    /\ Len(log) > 1
    /\ log[1].result = "error"
    /\ log[Len(log)].result = "removed"
    /\ fs[log[Len(log)].file].kind = "none"

\* C4: if the target directory does not exist or is no directory, the program
\* ends with exit status 1 and has not scanned, prompted or deleted.
C4_BadDirExits ==
    fs0[Root].kind # "dir" =>
        /\ pc \in {"start", "exited"}
        /\ pc = "exited" => exit_code = 1
        /\ stack = <<>> /\ skipped = {} /\ acc = <<>>
        /\ ~prompted
        /\ log = <<>>
        /\ fs = fs0

C4_Witness ==
    /\ fs0[Root].kind = "file"
    /\ pc = "exited"
    /\ exit_code = 1

\* C8: every deletion attempt comes after find_files has returned and after
\* the prompt has been answered, and the list remove_files works on is the
\* list find_files returned.
C8_ScanThenRemove ==
    (pc = "remove" \/ log # <<>> \/ fs # fs0) =>
        /\ FindReturned
        /\ prompted
        /\ user_input # NoInput
        /\ conflict_list = acc
        /\ files = conflict_list

C8_Witness ==
    /\ pc = "remove"
    /\ Len(files) > 1
    /\ fs # fs0

\* C9: the deletion attempts follow the order of the input sequence: the i-th
\* attempt, failed or not, is for the i-th path of the input list.
C9_InputOrder ==
    /\ pc = "remove" => Len(log) = idx - 1
    /\ Len(log) <= Len(files)
    /\ \A i \in 1..Len(log) : log[i].file = files[i]

C9_Witness ==
    /\ pc = "remove"
    /\ idx = 3
    /\ log[1].result = "error"
    /\ log[2].file # log[1].file

\* C3 as stated: when find_files returns, its list holds exactly the files below
\* the root whose own filename matches, each once, and no directory.
C3_AllConflictFiles ==
    pc = "report" =>
        /\ Range(conflict_list) = ConflictFiles(fs0)
        /\ NoDuplicates(conflict_list)

\* C3 as the code has it: when find_files returns, its list holds exactly the files
\* whose own filename matches and that lie below directories os.walk could
\* list, each once, and no directory; what lies below a directory whose
\* listing failed is left out.
C3_AllListedConflictFiles ==
    pc = "report" =>
        /\ Range(conflict_list) = ConflictFiles(fs0) \cap Listed(fs0)
        /\ NoDuplicates(conflict_list)
        /\ \A n \in Range(conflict_list) : fs0[n].kind # "dir"

\* a matching file and a non-matching file inside a directory whose own name
\* matches: the file is listed, the directory and the other file are not
C3_Witness ==
    /\ pc = "report"
    /\ \E n \in Range(conflict_list), m \in 1..Len(fs0) :
           /\ fs0[n].parent # Root
           /\ fs0[fs0[n].parent].name = "conflict"
           /\ fs0[n].parent \notin Range(conflict_list)
           /\ fs0[m].parent = fs0[n].parent
           /\ fs0[m].kind = "file"
           /\ m \notin Range(conflict_list)

\* C5 as stated: a failed listing of a subdirectory makes the whole scan fail,
\* so find_files never returns a list after one.
C5_ListingErrorPropagates == ~(skipped \ {Root} # {} /\ FindReturned)

\* C5 as the code has it: os.walk drops the error of a failed listing; the
\* scan goes on, find_files returns normally, and its list holds nothing from
\* below the directory that could not be listed.
C5_ListingErrorSkipped ==
    skipped # {} =>
        /\ pc = "scan" \/ FindReturned
        /\ \A n \in Range(acc) : Above(fs0, n) \cap skipped = {}
        /\ \A d \in skipped : ScandirFails(fs0, d)

C5_Witness ==
    /\ FindReturned
    /\ pc = "prompt"
    /\ \E d \in skipped, n \in ConflictFiles(fs0) :
           /\ d # Root
           /\ fs0[n].parent = d
           /\ n \notin Range(conflict_list)

\* h hundredths is n / d rounded to two decimals
IsFixed2(h, n, d) ==
    LET diff == h * d - n * 100
    IN  2 * (IF diff < 0 THEN 0 - diff ELSE diff) <= d

\* C6 as stated: the size is given in kilobytes if it is under 1024^2 bytes
\* and in megabytes otherwise, 1024^2 included.
C6_MegabytesFromMiB ==
    prompted =>
        total_size_str.unit = IF total_size < MiB THEN "KB" ELSE "MB"

\* C6 as the code has it: the size is given in kilobytes (total_size / 1024)
\* up to and including 1024^2 bytes and in megabytes (total_size / 1024^2)
\* above.
C6_MegabytesAboveMiB ==
    prompted =>
        IF total_size <= MiB
        THEN /\ total_size_str.unit = "KB"
             /\ IsFixed2(total_size_str.hundredths, total_size, KiB)
        ELSE /\ total_size_str.unit = "MB"
             /\ IsFixed2(total_size_str.hundredths, total_size, MiB)

C6_Witness ==
    /\ prompted
    /\ total_size = MiB
    /\ total_size_str = [unit |-> "KB", hundredths |-> 102400]

\* C7: a run in which find_files returned matches has prompted by the time it
\* ends; a run in which it returned none has neither prompted nor entered
\* remove_files.
C7_PromptIffMatches ==
    (Ended /\ FindReturned) =>
        IF Len(conflict_list) > 0
        THEN prompted
        ELSE ~prompted /\ log = <<>> /\ idx = 0

----------------------------------------------------------------------------
(* Properties of the pattern *)

\* s holds '# Edit conflict ', a date shape, a space, text and ' #'; TextOk
\* says which characters the text may hold
HasConflictMark(s, TextOk(_)) ==
    \E i \in 1..Len(s), j \in 1..Len(s) :
        /\ i + 26 <= Len(s)
        /\ SubSeq(s, i, i + 15) = EditConflict
        /\ \A k \in {16, 17, 18, 19, 21, 22, 24, 25} : s[i + k] \in Digits
        /\ s[i + 20] = "-"
        /\ s[i + 23] = "-"
        /\ s[i + 26] = " "
        /\ j >= i + 27
        /\ j + 1 <= Len(s)
        /\ s[j] = " "
        /\ s[j + 1] = "#"
        /\ \A m \in (i + 27)..(j - 1) : TextOk(s[m])

AnyChar(c) == TRUE
NoNewline(c) == c # NL

\* C10 as stated: a filename matches exactly if it holds, anywhere,
\* '# Edit conflict ', 4 digits, '-', 2 digits, '-', 2 digits, a space, any
\* text and ' #'.
C10_MatchesAnyText ==
    pc = "searched" => (matched <=> HasConflictMark(filename, AnyChar))

\* C10 as the code has it: the same, with a text that holds no newline.
C10_MatchesLineText ==
    pc = "searched" => (matched <=> HasConflictMark(filename, NoNewline))

\* an unanchored match with the date 9999-99-99
C10_Witness ==
    /\ pc = "searched"
    /\ matched
    /\ filename[1] = "v"
    /\ \E i \in 1..Len(filename) :
           SubSeq(filename, i, i + 9) = <<"9", "9", "9", "9", "-", "9", "9", "-", "9", "9">>

====
